---- MODULE Spec2Model ----
(***************************************************************************)
(* Model of the data-derivation pipeline of the Ashby-charts notebook      *)
(* (_build/_page/Ashby_charts/jupyter_execute/Ashby_charts.py).            *)
(*                                                                         *)
(* The notebook is a script of cells run top to bottom: pc is the next     *)
(* cell, err the exception that stopped the script ("none" while it runs). *)
(* A script that has ended or stopped may be run again in the same kernel, *)
(* on the same files.                                                      *)
(* Beside the script, the reader of the notebook may act on the tables by  *)
(* hand (append a fluid record, change one field of a fluid or of a        *)
(* string, run the bulk-modulus cell again); last names the statement      *)
(* executed last.  The chart cells bind the contour grids z and c and the  *)
(* figure fig, of which the model keeps the highlighted points and the     *)
(* contours.                                                               *)
(*                                                                         *)
(* Numbers.  The notebook's floats are only ever multiplied, divided and   *)
(* raised to powers, so a finite non-zero float is modelled exactly by its *)
(* sign and its prime factorisation, with exponents counted in twelfths    *)
(* (2^(1/12) is the semitone ratio).  Zero, NaN (pandas' missing value)    *)
(* and the infinities are the other values.  Rounding of the floats is not *)
(* modelled.                                                               *)
(***************************************************************************)
EXTENDS Integers, Sequences, FiniteSets, TLC

VARIABLES fluids, strings_g, strings, pc, err, last, manual,
          z, c_, fig, run, source, first

\* what the chart cells bind: the grids z and c (c_ here, c being the name
\* of a parameter of many definitions) and the figure
chart == <<z, c_, fig>>

\* the runs of the script: the number of the run, the files read so far and
\* what the earlier run left
runs == <<run, source, first>>

vars == <<fluids, strings_g, strings, pc, err, last, manual, chart, runs>>

(***************************************************************************)
(* Bounds of the model.                                                    *)
(***************************************************************************)
\* rows of a source CSV file of strings
MaxRows == 2
\* rows of the source CSV file of fluids
MaxFluidRows == 3
\* points of an axis range of a contour grid
MaxPoints == 3
\* statements the reader runs by hand beside the script
MaxManual == 1

(***************************************************************************)
(* Numbers                                                                 *)
(***************************************************************************)
\* exponents are counted in units of 1/Unit: the 12 of (semitones - 9)/12
Unit == 12

EmptyMap == [p \in {} |-> 0]

Exp(m, p) == IF p \in DOMAIN m THEN m[p] ELSE 0

\* factor maps keep no zero exponent, so that equal values are equal maps
MapAdd(m, n) ==
  [p \in {q \in DOMAIN m \cup DOMAIN n : Exp(m, q) + Exp(n, q) # 0}
     |-> Exp(m, p) + Exp(n, p)]

MapScale(m, c) == [p \in {q \in DOMAIN m : c # 0} |-> c * m[p]]

SmallestDivisor(n) ==
  LET D == {d \in 2..n : n % d = 0}
  IN  CHOOSE d \in D : \A c \in D : d <= c

RECURSIVE Factor(_)
Factor(n) ==
  IF n = 1 THEN EmptyMap
  ELSE LET p == SmallestDivisor(n)
       IN  MapAdd((p :> Unit), Factor(n \div p))

NaN == [k |-> "nan", s |-> 0, e |-> EmptyMap]
Zero == [k |-> "num", s |-> 0, e |-> EmptyMap]
Inf(sign) == [k |-> "inf", s |-> sign, e |-> EmptyMap]

\* the float n/d, for integers n and d > 0
Dec(n, d) ==
  IF n = 0 THEN Zero
  ELSE [k |-> "num",
        s |-> IF n > 0 THEN 1 ELSE -1,
        e |-> MapAdd(Factor(IF n > 0 THEN n ELSE -n), MapScale(Factor(d), -1))]

\* 2 ** (t/12)
TwoToThe(t) == [k |-> "num", s |-> 1, e |-> MapScale((2 :> 1), t)]

IsNull(x) == x.k = "nan"
IsNumber(x) == x.k = "num"

\* a * b on floats
Mul(a, b) ==
  CASE a.k = "nan" \/ b.k = "nan" -> NaN
    [] a.k = "inf" \/ b.k = "inf" ->
         IF a.s * b.s = 0 THEN NaN ELSE Inf(a.s * b.s)
    [] OTHER ->
         IF a.s * b.s = 0 THEN Zero
         ELSE [k |-> "num", s |-> a.s * b.s, e |-> MapAdd(a.e, b.e)]

\* 1 / b on a float array (numpy: division by zero gives an infinity)
Inverse(b) ==
  CASE b.k = "nan" -> NaN
    [] b.k = "inf" -> Zero
    [] OTHER ->
         IF b.s = 0 THEN Inf(1)
         ELSE [k |-> "num", s |-> b.s, e |-> MapScale(b.e, -1)]

\* a / b on float arrays; 0/0 and inf/inf are NaN
Div(a, b) ==
  IF a.k = "num" /\ b.k = "num" /\ a.s = 0 /\ b.s = 0 THEN NaN
  ELSE IF a.k = "inf" /\ b.k = "inf" THEN NaN
  ELSE Mul(a, Inverse(b))

\* a * 2 written for a ** 2
SquareAsDouble(a) == Mul(a, Dec(2, 1))

\* a ** 2
Square(a) == Mul(a, a)

\* the exponents of a factor map, halved: the map must hold even exponents
\* only (the model takes square roots of nothing else)
MapHalf(m) == [p \in DOMAIN m |-> CHOOSE h \in {m[p] \div 2} : 2 * h = m[p]]

\* np.sqrt(a): the root of a negative number is NaN (numpy warns and goes on)
Sqrt(a) ==
  CASE a.k = "nan" -> NaN
    [] a.k = "inf" -> IF a.s > 0 THEN Inf(1) ELSE NaN
    [] OTHER -> IF a.s = 0 THEN Zero
                ELSE IF a.s < 0 THEN NaN
                ELSE [k |-> "num", s |-> 1, e |-> MapHalf(a.e)]

\* np.log10(a), kept as the logarithm of its argument: log10 of zero is
\* -inf and log10 of a negative number NaN (numpy warns and goes on)
Log10(a) ==
  CASE a.k = "nan" -> NaN
    [] a.k = "inf" -> IF a.s > 0 THEN Inf(1) ELSE NaN
    [] OTHER -> IF a.s = 0 THEN Inf(-1)
                ELSE IF a.s < 0 THEN NaN
                ELSE [k |-> "log10", s |-> 1, e |-> a.e]

\* 10 ** n for an integer n
TenToThe(n) == [k |-> "num", s |-> 1, e |-> MapScale((2 :> Unit) @@ (5 :> Unit), n)]

\* np.logspace(start, stop, num) for whole decades start <= stop with
\* stop - start a multiple of num - 1
LogSpace(start, stop, num) ==
  [i \in 1..num |->
     TenToThe(start + IF num = 1 THEN 0 ELSE ((i - 1) * (stop - start)) \div (num - 1))]

(***************************************************************************)
(* Tables (pandas dataframes)                                              *)
(***************************************************************************)
\* a text cell
Str(v) == [k |-> "str", v |-> v]

\* a name that is not bound yet (its use raises NameError)
Undefined == [defined |-> FALSE, columns |-> <<>>, rows |-> <<>>]

Table(columns, rows) == [defined |-> TRUE, columns |-> columns, rows |-> rows]

Range(s) == {s[i] : i \in DOMAIN s}

HasColumn(df, c) == c \in Range(df.columns)

\* df[c] = values, values[i] the value for row i: a new column is added at
\* the end of the columns, an existing one is overwritten in place
SetColumn(df, c, values) ==
  [df EXCEPT
     !.columns = IF HasColumn(df, c) THEN @ ELSE Append(@, c),
     !.rows = [i \in DOMAIN df.rows |->
                 [f \in DOMAIN df.rows[i] \cup {c} |->
                    IF f = c THEN values[i] ELSE df.rows[i][f]]]]

\* df.loc[i, c] = v for one row label i of a RangeIndex: a column that does
\* not exist yet is created, holding NaN in the other rows
SetCell(df, i, c, v) ==
  SetColumn(df, c,
            [j \in DOMAIN df.rows |->
               IF j = i THEN v
               ELSE IF HasColumn(df, c) THEN df.rows[j][c] ELSE NaN])

RECURSIVE SeqsUpTo(_, _)
\* the sequences of at most n elements of S
SeqsUpTo(S, n) ==
  IF n = 0 THEN {<<>>}
  ELSE LET shorter == SeqsUpTo(S, n - 1)
       IN  shorter \cup {Append(s, x) : s \in shorter, x \in S}

(***************************************************************************)
(* Fluids                                                                  *)
(***************************************************************************)
FluidColumns == <<"Density", "Sound speed", "Phase">>

FluidRow(name, density, speed, phase) ==
  [f \in {"index", "Density", "Sound speed", "Phase"} |->
     CASE f = "index" -> Str(name)
       [] f = "Density" -> density
       [] f = "Sound speed" -> speed
       [] OTHER -> Str(phase)]

Air == FluidRow("Air", Dec(12, 10), Dec(343, 1), "gas")

Water == FluidRow("Water", Dec(998, 1), Dec(1481, 1), "liquid")

\* a record whose density was entered as 0
Helium == FluidRow("Helium", Zero, Dec(1007, 1), "gas")

\* the rows 'Fluid properties.csv' is drawn from
FluidRowPool == {Air, Water, Helium}

\* fluids = pd.read_csv('Fluid properties.csv', index_col = 0): the rows of
\* the file in their order, whatever their labels
FluidFiles == {Table(FluidColumns, r) : r \in SeqsUpTo(FluidRowPool, MaxFluidRows)}

\* a read that keeps the table the name is bound to already
ReadCsvKeeping(previous, file) == IF previous.defined THEN previous ELSE file

\* name = pd.read_csv(...): the name is bound to the table just read,
\* whatever it was bound to before
ReadCsv(previous, file) == file

\* the rows labelled key, in their order
RECURSIVE RowsLabelled(_, _)
RowsLabelled(rows, key) ==
  IF rows = <<>> THEN <<>>
  ELSE IF Head(rows)["index"] = Str(key)
       THEN <<Head(rows)>> \o RowsLabelled(Tail(rows), key)
       ELSE RowsLabelled(Tail(rows), key)

\* df.loc[key, column]: the value when one row is labelled key, the values
\* (a Series) when several are; KeyError when none is
Loc(df, key, column) ==
  LET found == RowsLabelled(df.rows, key)
  IN  [i \in DOMAIN found |-> found[i][column]]

HasKey(df, key) == \E i \in DOMAIN df.rows : df.rows[i]["index"] = Str(key)

\* the row made of the index label and one value per column
RowOf(df, key, values) ==
  [f \in {"index"} \cup Range(df.columns) |->
     IF f = "index" THEN Str(key)
     ELSE values[CHOOSE i \in DOMAIN df.columns : df.columns[i] = f]]

\* df.loc[key] = values: raises ValueError unless there is one value per
\* column; sets every row labelled key, and appends a row when there is none
SetRowFails(df, values) == Len(values) # Len(df.columns)

SetRow(df, key, values) ==
  IF HasKey(df, key)
  THEN [df EXCEPT !.rows = [i \in DOMAIN df.rows |->
                              IF df.rows[i]["index"] = Str(key)
                              THEN RowOf(df, key, values)
                              ELSE df.rows[i]]]
  ELSE [df EXCEPT !.rows = Append(@, RowOf(df, key, values))]

\* the product without the square
BulkModulusMissingSquare(row) == Mul(row["Density"], row["Sound speed"])

\* fluids['Density']*fluids['Sound speed']**2, for one row
BulkModulusOf(row) == Mul(row["Density"], Square(row["Sound speed"]))

\* fluids['Bulk modulus'] = fluids['Density']*fluids['Sound speed']**2
WithBulkModulus(df) ==
  SetColumn(df, "Bulk modulus", [i \in DOMAIN df.rows |-> BulkModulusOf(df.rows[i])])

(***************************************************************************)
(* Strings                                                                 *)
(***************************************************************************)
GuitarColumns ==
  <<"Instrument", "Type", "String type", "Note", "Tension (kg)", "Scale (cm)">>

VariousColumns ==
  <<"Instrument", "Type", "Method", "Note", "Tension (kg)", "Scale (cm)">>

\* a note name in Scientific Pitch Notation, as its characters
Note(chars) == Str(chars)

GuitarRow(type, stringType, note, tension, scale) ==
  [f \in Range(GuitarColumns) |->
     CASE f = "Instrument" -> Str("Guitar")
       [] f = "Type" -> type
       [] f = "String type" -> Str(stringType)
       [] f = "Note" -> note
       [] f = "Tension (kg)" -> tension
       [] OTHER -> scale]

VariousRow(instrument, type, method, note, tension, scale) ==
  [f \in Range(VariousColumns) |->
     CASE f = "Instrument" -> Str(instrument)
       [] f = "Type" -> type
       [] f = "Method" -> Str(method)
       [] f = "Note" -> note
       [] f = "Tension (kg)" -> tension
       [] OTHER -> scale]

\* the rows 'String data guitar.csv' is drawn from: a typed string, a string
\* with no Type, a string whose note is written with the usual sharp sign, a
\* string whose tension was entered with a minus sign
GuitarRowPool ==
  { GuitarRow(Str("Classical"), "Normal", Note(<<"E", "2">>), Dec(60, 10), Dec(645, 10)),
    GuitarRow(NaN, "Light", Note(<<"A", "3">>), Dec(75, 10), Dec(645, 10)),
    GuitarRow(Str("Electric"), "Light", Note(<<"C", "#", "4">>), Dec(80, 10), Dec(645, 10)),
    GuitarRow(Str("Electric"), "Heavy", Note(<<"E", "4">>), Dec(-70, 10), Dec(648, 10)) }

\* the rows 'String data various.csv' is drawn from: a typed instrument, an
\* instrument with no Type, a string with no tension given
VariousRowPool ==
  { VariousRow("Guitar", Str("Tenor"), "Plucked", Note(<<"A", "4">>), Dec(80, 10), Dec(58, 1)),
    VariousRow("Violin", NaN, "Bowed", Note(<<"E", "5">>), Dec(82, 10), Dec(325, 10)),
    VariousRow("Erhu", Str("Steel"), "Bowed", Note(<<"D", "4">>), NaN, Dec(40, 1)) }

\* no string is listed twice
NoRepeat(s) == \A i, j \in DOMAIN s : i # j => s[i] # s[j]

\* strings_g = pd.read_csv('String data guitar.csv'): the rows of the file in
\* their order, each string listed once
GuitarFiles ==
  {Table(GuitarColumns, r) : r \in {s \in SeqsUpTo(GuitarRowPool, MaxRows) : NoRepeat(s)}}

\* strings = pd.read_csv('String data various.csv')
VariousFiles ==
  {Table(VariousColumns, r) : r \in {s \in SeqsUpTo(VariousRowPool, MaxRows) : NoRepeat(s)}}

\* g rounded to 9.8
GravityRounded == Dec(98, 10)

\* the 9.81 of  strings_g['Tension (kg)'] * 9.81
Gravity == Dec(981, 100)

\* strings_g['Tension [N]'] = strings_g['Tension (kg)'] * 9.81
TensionNewtons(row) == Mul(row["Tension (kg)"], Gravity)

\* strings_g['Scale [m]'] = strings_g['Scale (cm)']/100
Hundred == Dec(100, 1)

\* centimetres divided by 10
ScaleDecimetres(row) == Div(row["Scale (cm)"], Dec(10, 1))

ScaleMetres(row) == Div(row["Scale (cm)"], Hundred)

\* a conversion made in place: the newtons and the metres written over the
\* kilograms and the centimetres
WithSIUnitsInPlace(df) ==
  SetColumn(SetColumn(df, "Tension (kg)",
                      [i \in DOMAIN df.rows |-> TensionNewtons(df.rows[i])]),
            "Scale (cm)", [i \in DOMAIN df.rows |-> ScaleMetres(df.rows[i])])

\* strings_g['Tension [N]'] = ...; strings_g['Scale [m]'] = ...: two columns
\* added after the columns of the file
WithSIUnits(df) ==
  SetColumn(SetColumn(df, "Tension [N]",
                      [i \in DOMAIN df.rows |-> TensionNewtons(df.rows[i])]),
            "Scale [m]", [i \in DOMAIN df.rows |-> ScaleMetres(df.rows[i])])

\* a list with two letter classes exchanged
note_names_swapped ==
  << <<"C">>, <<"C", "s">>, <<"D">>, <<"D", "s">>, <<"E">>, <<"F">>,
     <<"F", "s">>, <<"G">>, <<"A">>, <<"G", "s">>, <<"A", "s">>, <<"B">> >>

\* note_names = ['C', 'Cs', 'D', 'Ds', 'E', 'F', 'Fs', 'G', 'Gs', 'A', 'As', 'B']
note_names ==
  << <<"C">>, <<"C", "s">>, <<"D">>, <<"D", "s">>, <<"E">>, <<"F">>,
     <<"F", "s">>, <<"G">>, <<"G", "s">>, <<"A">>, <<"A", "s">>, <<"B">> >>

Digits == <<"0", "1", "2", "3", "4", "5", "6", "7", "8", "9">>

\* s[:-1]
AllButLast(s) == SubSeq(s, 1, Len(s) - 1)

\* list.index(x), counted from zero, where x is in the list
IndexIn(list, x) == (CHOOSE i \in DOMAIN list : list[i] = x) - 1

\* int(c) for one character c that is a digit
IntOf(c) == IndexIn(Digits, c)

\* a loop body that refuses the octave digit 0
NoteErrorNoOctaveZero(cell) ==
  CASE IsNull(cell) -> "TypeError"
    [] AllButLast(cell.v) \notin Range(note_names) -> "ValueError"
    [] cell.v[Len(cell.v)] \notin Range(Digits) \ {"0"} -> "ValueError"
    [] OTHER -> "none"

\* the exception that one pass of the loop body raises for a Note cell:
\* subscripting a missing note (a float NaN) is a TypeError, a letter class
\* that is not in note_names and a last character that int() refuses are
\* ValueErrors
NoteError(cell) ==
  CASE IsNull(cell) -> "TypeError"
    [] AllButLast(cell.v) \notin Range(note_names) -> "ValueError"
    [] cell.v[Len(cell.v)] \notin Range(Digits) -> "ValueError"
    [] OTHER -> "none"

\* semitones = note_names.index(row['Note'][:-1])
Semitones(cell) == IndexIn(note_names, AllButLast(cell.v))

\* (int(row['Note'][-1]) - 4 + semitones - 9)/12: the octave divided as well
ExponentTwelfthsUnscaled(cell) ==
  (IntOf(cell.v[Len(cell.v)]) - 4) + (Semitones(cell) - 9)

\* semitones counted from the last element of note_names
ExponentTwelfthsFromB(cell) ==
  Unit * (IntOf(cell.v[Len(cell.v)]) - 4) + (Semitones(cell) - 11)

\* the exponent int(row['Note'][-1]) - 4 + (semitones - 9)/12, in twelfths
ExponentTwelfths(cell) ==
  Unit * (IntOf(cell.v[Len(cell.v)]) - 4) + (Semitones(cell) - 9)

\* 440 * 2 ** (int(row['Note'][-1]) - 4 + (semitones - 9)/12)
A440 == Dec(440, 1)

NoteFrequency(cell) == Mul(A440, TwoToThe(ExponentTwelfths(cell)))

RECURSIVE FrequencyLoopSkipping(_, _)
\* a loop that passes over a note that raises and goes on with the rows
\* after it
FrequencyLoopSkipping(df, i) ==
  IF i > Len(df.rows) THEN [df |-> df, err |-> "none"]
  ELSE IF NoteError(df.rows[i]["Note"]) # "none"
       THEN [df |-> FrequencyLoopSkipping(df, i + 1).df,
             err |-> NoteError(df.rows[i]["Note"])]
       ELSE FrequencyLoopSkipping(SetCell(df, i, "Frequency [Hz]",
                                          NoteFrequency(df.rows[i]["Note"])), i + 1)

RECURSIVE FrequencyLoop(_, _)
\* for index, row in df.iterrows(): ... df.loc[index, 'Frequency [Hz]'] = ...
\* from row i on: the rows before the first note that raises are written
FrequencyLoop(df, i) ==
  IF i > Len(df.rows) THEN [df |-> df, err |-> "none"]
  ELSE IF NoteError(df.rows[i]["Note"]) # "none"
       THEN [df |-> df, err |-> NoteError(df.rows[i]["Note"])]
       ELSE FrequencyLoop(SetCell(df, i, "Frequency [Hz]",
                                  NoteFrequency(df.rows[i]["Note"])), i + 1)

Four == Dec(4, 1)

\* tension / (L^2 f^2): the 4 of (2 f L)^2 left out
MassPerLengthNoFour(row) ==
  Div(row["Tension [N]"], Mul(Square(row["Scale [m]"]), Square(row["Frequency [Hz]"])))

\* strings_g['Tension [N]']/(4*(strings_g['Scale [m]'])**2 * strings_g['Frequency [Hz]']**2)
MassPerLength(row) ==
  Div(row["Tension [N]"],
      Mul(Mul(Four, Square(row["Scale [m]"])), Square(row["Frequency [Hz]"])))

WithMassPerLength(df) ==
  SetColumn(df, "Mass/length [kg/m]",
            [i \in DOMAIN df.rows |-> MassPerLength(df.rows[i])])

\* a + b on two cells of text columns: a missing operand gives a missing sum
Concat(a, b) == IF IsNull(a) \/ IsNull(b) THEN NaN ELSE Str(a.v \o b.v)

\* a column read from the file with no text at all in it has dtype float64,
\* and adding ' ' to it raises TypeError
AddTextFails(df, c) ==
  Len(df.rows) > 0 /\ \A i \in DOMAIN df.rows : IsNull(df.rows[i][c])

\* strings_g['Name'] = strings_g['Type'] + ' ' + strings_g['String type']
GuitarName(row) == Concat(Concat(row["Type"], Str(" ")), row["String type"])

WithGuitarName(df) ==
  SetColumn(df, "Name", [i \in DOMAIN df.rows |-> GuitarName(df.rows[i])])

\* strings['Name'] = strings['Type'] + ' ' + strings['Instrument']
\* notype = pd.isnull(strings['Name'])
\* strings.loc[notype, 'Name'] = strings.loc[notype, 'Instrument']
VariousName(row) ==
  LET name == Concat(Concat(row["Type"], Str(" ")), row["Instrument"])
  IN  IF IsNull(name) THEN row["Instrument"] ELSE name

WithVariousName(df) ==
  SetColumn(df, "Name", [i \in DOMAIN df.rows |-> VariousName(df.rows[i])])

(***************************************************************************)
(* The script                                                              *)
(***************************************************************************)
Cells ==
  <<"read_fluids", "show_air", "add_fluid", "chart_speed", "bulk_modulus",
    "chart_modulus", "contours_fluids",
    "read_guitar", "si_guitar", "frequency_guitar", "mass_guitar", "name_guitar",
    "charts_guitar",
    "read_various", "si_various", "frequency_various", "mass_various",
    "name_various", "contours_strings", "charts_various", "done">>

\* the cell after cell c
After(c) == Cells[(CHOOSE i \in DOMAIN Cells : Cells[i] = c) + 1]

At(c) == pc = c /\ err = "none"

\* the cell ran to its end / raised
Ran(c) == pc' = After(c) /\ err' = "none" /\ last' = c
Raised(c, e) == pc' = c /\ err' = e /\ last' = c

\* a figure: the table and the columns it plots, the highlighted points and
\* the contours added to it
Figure(frame, x, y, points, contours) ==
  [frame |-> frame, x |-> x, y |-> y, points |-> points, contours |-> contours]

NoFigure == Figure("none", "none", "none", <<>>, <<>>)

NoFiles == [fluids |-> Undefined, strings_g |-> Undefined, strings |-> Undefined]

Init ==
  /\ fluids = Undefined
  /\ strings_g = Undefined
  /\ strings = Undefined
  /\ pc = "read_fluids"
  /\ err = "none"
  /\ last = "start"
  /\ manual = 0
  /\ z = <<>>
  /\ c_ = <<>>
  /\ fig = NoFigure
  /\ run = 1
  /\ source = NoFiles
  /\ first = <<>>

\* the files a read may find: any file of the set in the first run, the
\* file read before in a later run
OnDisk(files, name) == IF run = 1 THEN files ELSE {source[name]}

\* fluids = pd.read_csv('Fluid properties.csv', index_col = 0)
ReadFluids ==
  /\ At("read_fluids")
  /\ \E file \in OnDisk(FluidFiles, "fluids") :
       /\ fluids' = ReadCsv(fluids, file)
       /\ source' = [source EXCEPT !.fluids = file]
  /\ Ran("read_fluids")
  /\ UNCHANGED <<strings_g, strings, manual, chart, run, first>>

\* fluids.loc['Air'] and fluids.loc['Air']['Density']: KeyError when no row
\* is labelled Air
ShowAir ==
  /\ At("show_air")
  /\ IF HasKey(fluids, "Air") THEN Ran("show_air")
     ELSE Raised("show_air", "KeyError")
  /\ UNCHANGED <<fluids, strings_g, strings, manual, chart, runs>>

\* [10.31, 99.72, 'gas']
Dodecafluoropentane == <<Dec(1031, 100), Dec(9972, 100), Str("gas")>>

\* fluids.loc['Dodecafluoropentane'] = [10.31, 99.72, 'gas']
AddFluid ==
  /\ At("add_fluid")
  /\ IF SetRowFails(fluids, Dodecafluoropentane)
     THEN Raised("add_fluid", "ValueError") /\ UNCHANGED fluids
     ELSE /\ fluids' = SetRow(fluids, "Dodecafluoropentane", Dodecafluoropentane)
          /\ Ran("add_fluid")
  /\ UNCHANGED <<strings_g, strings, manual, chart, runs>>

\* a chart cell that draws without looking up its highlights
HighlightChartNoLookup(cell, x, y) ==
  /\ At(cell)
  /\ fig' = Figure("fluids", x, y, <<>>, <<>>)
  /\ Ran(cell)
  /\ UNCHANGED <<fluids, strings_g, strings, manual, z, c_, runs>>

\* [fluids.loc[key, x]], [fluids.loc[key, y]]: a highlighted point
Point(df, key, x, y) == [name |-> key, x |-> Loc(df, key, x), y |-> Loc(df, key, y)]

\* fig = px.scatter(fluids, x = x, y = y, ...) and the two fig.add_scatter
\* that highlight water and air: the lookup of a key that labels no row
\* raises KeyError
HighlightChart(cell, x, y) ==
  /\ At(cell)
  /\ IF HasKey(fluids, "Water") /\ HasKey(fluids, "Air")
     THEN /\ fig' = Figure("fluids", x, y,
                           <<Point(fluids, "Water", x, y), Point(fluids, "Air", x, y)>>,
                           <<>>)
          /\ Ran(cell)
     ELSE /\ Raised(cell, "KeyError")
          /\ UNCHANGED fig
  /\ UNCHANGED <<fluids, strings_g, strings, manual, z, c_, runs>>

\* the chart of sound speed against density
ChartSpeed == HighlightChart("chart_speed", "Density", "Sound speed")

\* fluids['Bulk modulus'] = fluids['Density']*fluids['Sound speed']**2
BulkModulus ==
  /\ At("bulk_modulus")
  /\ fluids' = WithBulkModulus(fluids)
  /\ Ran("bulk_modulus")
  /\ UNCHANGED <<strings_g, strings, manual, chart, runs>>

\* the chart of bulk modulus against density
ChartModulus == HighlightChart("chart_modulus", "Density", "Bulk modulus")

(***************************************************************************)
(* Contours.  The notebook's axis ranges are np.logspace ranges of 100     *)
(* points; the model takes ranges of one point per decade and of at most   *)
(* MaxPoints points, from the decade nearest to the notebook's start.      *)
(***************************************************************************)
\* the sizes (points of x, points of y) of the grids
GridSizes == (1..MaxPoints) \X (1..MaxPoints)

\* the size of the grids in a run of the whole script
ScriptSizes == {<<2, 1>>}

\* np.meshgrid(x, y, indexing = 'ij'): one row per element of x
MeshGridByRows(x, y) ==
  [X |-> [i \in DOMAIN x |-> [j \in DOMAIN y |-> x[i]]],
   Y |-> [i \in DOMAIN x |-> [j \in DOMAIN y |-> y[j]]]]

\* X, Y = np.meshgrid(x, y): both grids have one row per element of y and
\* one column per element of x; X[j][i] = x[i] and Y[j][i] = y[j]
MeshGrid(x, y) ==
  [X |-> [j \in DOMAIN y |-> [i \in DOMAIN x |-> x[i]]],
   Y |-> [j \in DOMAIN y |-> [i \in DOMAIN x |-> y[j]]]]

\* np.sqrt(y*x) and np.sqrt(y/x) for one cell
Impedance(y, x) == Sqrt(Mul(y, x))

\* the quotient taken the other way round
SpeedInverted(y, x) == Sqrt(Div(x, y))

Speed(y, x) == Sqrt(Div(y, x))

\* np.log10(grid)
Log10Grid(grid) == [j \in DOMAIN grid |-> [i \in DOMAIN grid[j] |-> Log10(grid[j][i])]]

\* fig.add_contour(x = x, y = y, z = np.log10(grid),
\*                 contours = {'start': start, 'end': end, 'size': size, ...})
Contour(name, x, y, grid, start, end, size) ==
  [name |-> name, x |-> x, y |-> y, z |-> Log10Grid(grid),
   start |-> start, end |-> end, size |-> size]

\* rho_air, c_air = fluids.loc['Air', ['Density', 'Sound speed']]: the two
\* values of the row labelled key; when several rows are labelled key the
\* lookup gives a table, and unpacking it gives its two column labels
Unpack(df, key) ==
  LET found == RowsLabelled(df.rows, key)
  IN  IF Len(found) = 1 THEN <<found[1]["Density"], found[1]["Sound speed"]>>
      ELSE <<Str("Density"), Str("Sound speed")>>

\* rho*c on what was unpacked: the product of two texts raises TypeError
ProductFails(pair) == pair[1].k = "str" \/ pair[2].k = "str"

\* log10(z_air/z_water) written for the step between the two levels
HighlightSizeInverted(low, high) == Log10(Div(low, high))

\* 'size': np.log10(z_water/z_air)
HighlightSize(low, high) == Log10(Div(high, low))

\* the dashed contours: 'start': np.log10(z_air), 'end': np.log10(z_water),
\* 'size': np.log10(z_water/z_air)
Highlight(name, x, y, grid, low, high) ==
  Contour(name, x, y, grid, Log10(low), Log10(high), HighlightSize(low, high))

\* rho, B = np.logspace(-1.3, 4, 100), np.logspace(4.5, 10, 100)
FluidAxes(size) ==
  [x |-> LogSpace(-1, size[1] - 2, size[1]), y |-> LogSpace(5, size[2] + 4, size[2])]

\* rho_grid, B_grid = np.meshgrid(rho, B); z = np.sqrt(B_grid*rho_grid)
ImpedanceGrid(axes) ==
  LET grids == MeshGrid(axes.x, axes.y)
  IN  [j \in DOMAIN grids.Y |->
         [i \in DOMAIN grids.Y[j] |-> Impedance(grids.Y[j][i], grids.X[j][i])]]

\* rho_grid, B_grid = np.meshgrid(rho, B); c = np.sqrt(B_grid/rho_grid)
SpeedGrid(axes) ==
  LET grids == MeshGrid(axes.x, axes.y)
  IN  [j \in DOMAIN grids.Y |->
         [i \in DOMAIN grids.Y[j] |-> Speed(grids.Y[j][i], grids.X[j][i])]]

\* rho_air, c_air = ...; rho_water, c_water = ...
\* z_air, z_water = rho_air*c_air, rho_water*c_water
\* fig = px.scatter(...); fig.add_scatter(...) twice; fig.add_contour(...)
\* four times
FluidContours(df, axes) ==
  LET air == Unpack(df, "Air")
      water == Unpack(df, "Water")
      z_air == Mul(air[1], air[2])
      z_water == Mul(water[1], water[2])
  IN  Figure("fluids", "Density", "Bulk modulus",
             <<Point(df, "Water", "Density", "Bulk modulus"),
               Point(df, "Air", "Density", "Bulk modulus")>>,
             <<Contour("log10(z [rayl])", axes.x, axes.y, ImpedanceGrid(axes),
                       Dec(2, 1), Dec(6, 1), Dec(1, 1)),
               Contour("log10(c [m/s])", axes.x, axes.y, SpeedGrid(axes),
                       Zero, Dec(6, 1), Dec(1, 1)),
               Highlight("z dashed", axes.x, axes.y, ImpedanceGrid(axes), z_air, z_water),
               Highlight("c dashed", axes.x, axes.y, SpeedGrid(axes), air[2], water[2])>>)

\* the cell of the contours on the fluid chart: the grids are bound before
\* the lookups of air and water, the figure after them
ContoursFluids(sizes) ==
  /\ At("contours_fluids")
  /\ \E size \in sizes :
       /\ z' = ImpedanceGrid(FluidAxes(size))
       /\ c_' = SpeedGrid(FluidAxes(size))
       /\ IF ~HasKey(fluids, "Air") \/ ~HasKey(fluids, "Water")
          THEN Raised("contours_fluids", "KeyError") /\ UNCHANGED fig
          ELSE IF ProductFails(Unpack(fluids, "Air")) \/ ProductFails(Unpack(fluids, "Water"))
          THEN Raised("contours_fluids", "TypeError") /\ UNCHANGED fig
          ELSE /\ fig' = FluidContours(fluids, FluidAxes(size))
               /\ Ran("contours_fluids")
  /\ UNCHANGED <<fluids, strings_g, strings, manual, runs>>

(***************************************************************************)
(* Statements run by hand on the fluid table                               *)
(***************************************************************************)
ByHand(statement) ==
  /\ fluids.defined
  /\ manual < MaxManual
  /\ manual' = manual + 1
  /\ last' = statement
  /\ UNCHANGED <<strings_g, strings, pc, err, chart, runs>>

\* records the notebook asks its reader to add or to replace: mercury, and
\* air of a given humidity
ManualRecords ==
  { [key |-> "Mercury", values |-> <<Dec(13534, 1), Dec(1450, 1), Str("liquid")>>],
    [key |-> "Air", values |-> <<Dec(119, 100), Dec(344, 1), Str("gas")>>] }

\* fluids.loc[key] = [density, sound speed, phase], as fluids.loc['Dodecafluoropentane'] = ...
ManualAppend ==
  \E r \in ManualRecords :
    /\ fluids.defined
    /\ ~SetRowFails(fluids, r.values)
    /\ fluids' = SetRow(fluids, r.key, r.values)
    /\ ByHand("manual_append")

ManualValues == {Dec(2, 1)}

\* a change of one field that derives the bulk modulus again
SetFieldDerivingAgain(df, key, column, value) ==
  LET changed == [df EXCEPT !.rows = [i \in DOMAIN df.rows |->
                                        IF df.rows[i]["index"] = Str(key)
                                        THEN [df.rows[i] EXCEPT ![column] = value]
                                        ELSE df.rows[i]]]
  IN  IF HasColumn(df, "Bulk modulus") THEN WithBulkModulus(changed) ELSE changed

\* fluids.loc[key, column] = value: one field of the rows labelled key
\* changes, every other field keeps its value
SetField(df, key, column, value) ==
  [df EXCEPT !.rows = [i \in DOMAIN df.rows |->
                         IF df.rows[i]["index"] = Str(key)
                         THEN [df.rows[i] EXCEPT ![column] = value]
                         ELSE df.rows[i]]]

ManualChange ==
  \E i \in DOMAIN fluids.rows, column \in {"Density", "Sound speed"},
     value \in ManualValues :
    /\ fluids.defined
    /\ fluids.rows[i][column] # value
    /\ fluids' = SetField(fluids, fluids.rows[i]["index"].v, column, value)
    /\ ByHand("manual_change")

\* the bulk-modulus cell, run by hand
ManualBulkModulus ==
  /\ fluids.defined
  /\ fluids' = WithBulkModulus(fluids)
  /\ ByHand("manual_bulk_modulus")

(***************************************************************************)
(* Statements run by hand on the tables of strings                         *)
(***************************************************************************)
\* the changes of a primary field: a tension, a scale length, a note
StringChanges ==
  { [column |-> "Tension (kg)", value |-> Dec(90, 10)],
    [column |-> "Scale (cm)", value |-> Dec(65, 1)],
    [column |-> "Note", value |-> Note(<<"G", "3">>)] }

\* strings_g.loc[i, column] = value
ManualChangeGuitar ==
  \E i \in DOMAIN strings_g.rows, change \in StringChanges :
    /\ strings_g.defined
    /\ manual < MaxManual
    /\ strings_g.rows[i][change.column] # change.value
    /\ strings_g' = SetCell(strings_g, i, change.column, change.value)
    /\ manual' = manual + 1
    /\ last' = "manual_change_guitar"
    /\ UNCHANGED <<fluids, strings, pc, err, chart, runs>>

\* strings.loc[i, column] = value
ManualChangeVarious ==
  \E i \in DOMAIN strings.rows, change \in StringChanges :
    /\ strings.defined
    /\ manual < MaxManual
    /\ strings.rows[i][change.column] # change.value
    /\ strings' = SetCell(strings, i, change.column, change.value)
    /\ manual' = manual + 1
    /\ last' = "manual_change_various"
    /\ UNCHANGED <<fluids, strings_g, pc, err, chart, runs>>

(***************************************************************************)
(* Guitar strings                                                          *)
(***************************************************************************)
\* strings_g = pd.read_csv('String data guitar.csv')
ReadGuitar(files) ==
  /\ At("read_guitar")
  /\ \E file \in OnDisk(files, "strings_g") :
       /\ strings_g' = ReadCsv(strings_g, file)
       /\ source' = [source EXCEPT !.strings_g = file]
  /\ Ran("read_guitar")
  /\ UNCHANGED <<fluids, strings, manual, chart, run, first>>

SIGuitar ==
  /\ At("si_guitar")
  /\ strings_g' = WithSIUnits(strings_g)
  /\ Ran("si_guitar")
  /\ UNCHANGED <<fluids, strings, manual, chart, runs>>

FrequencyGuitar ==
  /\ At("frequency_guitar")
  /\ LET loop == FrequencyLoop(strings_g, 1)
     IN  /\ strings_g' = loop.df
         /\ IF loop.err = "none" THEN Ran("frequency_guitar")
            ELSE Raised("frequency_guitar", loop.err)
  /\ UNCHANGED <<fluids, strings, manual, chart, runs>>

MassGuitar ==
  /\ At("mass_guitar")
  /\ IF HasColumn(strings_g, "Frequency [Hz]")
     THEN strings_g' = WithMassPerLength(strings_g) /\ Ran("mass_guitar")
     ELSE Raised("mass_guitar", "KeyError") /\ UNCHANGED strings_g
  /\ UNCHANGED <<fluids, strings, manual, chart, runs>>

NameGuitar ==
  /\ At("name_guitar")
  /\ IF AddTextFails(strings_g, "Type")
     THEN Raised("name_guitar", "TypeError") /\ UNCHANGED strings_g
     ELSE strings_g' = WithGuitarName(strings_g) /\ Ran("name_guitar")
  /\ UNCHANGED <<fluids, strings, manual, chart, runs>>

\* fig = px.scatter(df, x = x, y = y, color = ..., ...): a chart with no
\* highlighted point and no contour
PlainChart(cell, frame, x, y) ==
  /\ At(cell)
  /\ fig' = Figure(frame, x, y, <<>>, <<>>)
  /\ Ran(cell)
  /\ UNCHANGED <<fluids, strings_g, strings, manual, z, c_, runs>>

\* the two charts of tension against mass per unit length of the guitar
\* strings
ChartsGuitar == PlainChart("charts_guitar", "strings_g", "Mass/length [kg/m]", "Tension [N]")

(***************************************************************************)
(* Strings of various instruments                                          *)
(***************************************************************************)
\* strings = pd.read_csv('String data various.csv')
ReadVarious(files) ==
  /\ At("read_various")
  /\ \E file \in OnDisk(files, "strings") :
       /\ strings' = ReadCsv(strings, file)
       /\ source' = [source EXCEPT !.strings = file]
  /\ Ran("read_various")
  /\ UNCHANGED <<fluids, strings_g, manual, chart, run, first>>

SIVarious ==
  /\ At("si_various")
  /\ strings' = WithSIUnits(strings)
  /\ Ran("si_various")
  /\ UNCHANGED <<fluids, strings_g, manual, chart, runs>>

FrequencyVarious ==
  /\ At("frequency_various")
  /\ LET loop == FrequencyLoop(strings, 1)
     IN  /\ strings' = loop.df
         /\ IF loop.err = "none" THEN Ran("frequency_various")
            ELSE Raised("frequency_various", loop.err)
  /\ UNCHANGED <<fluids, strings_g, manual, chart, runs>>

MassVarious ==
  /\ At("mass_various")
  /\ IF HasColumn(strings, "Frequency [Hz]")
     THEN strings' = WithMassPerLength(strings) /\ Ran("mass_various")
     ELSE Raised("mass_various", "KeyError") /\ UNCHANGED strings
  /\ UNCHANGED <<fluids, strings_g, manual, chart, runs>>

NameVarious ==
  /\ At("name_various")
  /\ IF AddTextFails(strings, "Type")
     THEN Raised("name_various", "TypeError") /\ UNCHANGED strings
     ELSE strings' = WithVariousName(strings) /\ Ran("name_various")
  /\ UNCHANGED <<fluids, strings_g, manual, chart, runs>>

\* mu = np.logspace(-3.7, -0.8, 100); tau = np.logspace(1, 3, 100)
StringAxes(size) ==
  [x |-> LogSpace(-4, size[1] - 5, size[1]), y |-> LogSpace(1, size[2], size[2])]

\* fig = px.scatter(strings, ...); fig.add_contour(...) twice
StringContours(axes) ==
  Figure("strings", "Mass/length [kg/m]", "Tension [N]", <<>>,
         <<Contour("log10(z [Ns/m])", axes.x, axes.y, ImpedanceGrid(axes),
                   Dec(-2, 1), Dec(1, 1), Dec(1, 2)),
           Contour("log10(c [m/s])", axes.x, axes.y, SpeedGrid(axes),
                   Dec(1, 1), Dec(3, 1), Dec(1, 2))>>)

\* mu_grid, tau_grid = np.meshgrid(mu, tau)
\* z = np.sqrt(tau_grid*mu_grid); c = np.sqrt(tau_grid/mu_grid)
\* and the chart of the strings with its contours
ContoursStrings(sizes) ==
  /\ At("contours_strings")
  /\ \E size \in sizes :
       /\ z' = ImpedanceGrid(StringAxes(size))
       /\ c_' = SpeedGrid(StringAxes(size))
       /\ fig' = StringContours(StringAxes(size))
  /\ Ran("contours_strings")
  /\ UNCHANGED <<fluids, strings_g, strings, manual, runs>>

\* the charts of mass per unit length against frequency and the 3d charts
ChartsVarious == PlainChart("charts_various", "strings", "Mass/length [kg/m]", "Tension [N]")

(***************************************************************************)
(* The script run again                                                    *)
(***************************************************************************)
\* what a run leaves
Left == [fluids |-> fluids, strings_g |-> strings_g, strings |-> strings,
         z |-> z, c |-> c_, fig |-> fig, pc |-> pc, err |-> err]

\* the script, ended or stopped, is run again from its first cell in the
\* same kernel: every name keeps what it is bound to
RunAgain ==
  /\ run = 1
  /\ pc = "done" \/ err # "none"
  /\ run' = 2
  /\ first' = Left
  /\ pc' = "read_fluids"
  /\ err' = "none"
  /\ last' = "run_again"
  /\ UNCHANGED <<fluids, strings_g, strings, manual, chart, source>>

\* the cells of the script
Script ==
  \/ ReadFluids
  \/ ShowAir
  \/ AddFluid
  \/ ChartSpeed
  \/ BulkModulus
  \/ ChartModulus
  \/ ContoursFluids(ScriptSizes)
  \/ ReadGuitar(GuitarFiles)
  \/ SIGuitar
  \/ FrequencyGuitar
  \/ MassGuitar
  \/ NameGuitar
  \/ ChartsGuitar
  \/ ReadVarious(VariousFiles)
  \/ SIVarious
  \/ FrequencyVarious
  \/ MassVarious
  \/ NameVarious
  \/ ContoursStrings(ScriptSizes)
  \/ ChartsVarious

\* the statements run by hand
Hand ==
  \/ ManualAppend
  \/ ManualChange
  \/ ManualBulkModulus
  \/ ManualChangeGuitar
  \/ ManualChangeVarious

Next == Script \/ Hand \/ RunAgain

Spec == Init /\ [][Next]_vars

\* the script alone, nothing run by hand
SpecScript == Init /\ [][Script]_vars

\* the script, and the script run a second time
SpecTwice == Init /\ [][Script \/ RunAgain]_vars

\* the script, and the bulk-modulus cell run again by hand
NextDerive == Script \/ ManualBulkModulus

SpecDerive == Init /\ [][NextDerive]_vars

\* the fluids section of the script and the statements run by hand on it
NextFluids ==
  \/ ReadFluids
  \/ ShowAir
  \/ AddFluid
  \/ ChartSpeed
  \/ BulkModulus
  \/ ChartModulus
  \/ ManualAppend
  \/ ManualChange
  \/ ManualBulkModulus

SpecFluids == Init /\ [][NextFluids]_vars

(***************************************************************************)
(* The strings sections over the whole space of note names: each file      *)
(* holds one string, whose note is any name of NotePool.                   *)
(***************************************************************************)
ValidNotes ==
  {Note(Append(note_names[i], Digits[d])) : i \in DOMAIN note_names, d \in DOMAIN Digits}

\* the five sharps written with the usual sign
SharpSignNotes ==
  {Note(<<l, "#", Digits[d]>>) : l \in {"C", "D", "F", "G", "A"}, d \in DOMAIN Digits}

\* no octave, no letter class, unknown letter classes, a last character that
\* is no digit, a two-digit octave, and a missing note
OtherNotes ==
  { Note(<<>>), Note(<<"A">>), Note(<<"4">>), Note(<<"H", "4">>),
    Note(<<"a", "4">>), Note(<<"B", "b", "3">>), Note(<<"E", "#", "2">>),
    Note(<<"A", "x">>), Note(<<"C", "s">>), Note(<<"A", "1", "0">>), NaN }

NotePool == ValidNotes \cup SharpSignNotes \cup OtherNotes

GuitarNoteFiles ==
  {Table(GuitarColumns,
         <<GuitarRow(Str("Classical"), "Normal", n, Dec(60, 10), Dec(645, 10))>>) :
     n \in NotePool}

VariousNoteFiles ==
  {Table(VariousColumns,
         <<VariousRow("Guitar", Str("Tenor"), "Plucked", n, Dec(80, 10), Dec(58, 1))>>) :
     n \in NotePool}

\* the state the script is in when the fluids section has run on a file
\* holding air and water
InitNotes ==
  /\ fluids = WithBulkModulus(SetRow(Table(FluidColumns, <<Air, Water>>),
                                     "Dodecafluoropentane", Dodecafluoropentane))
  /\ strings_g = Undefined
  /\ strings = Undefined
  /\ pc = "read_guitar"
  /\ err = "none"
  /\ last = "contours_fluids"
  /\ manual = 0
  /\ z = ImpedanceGrid(FluidAxes(<<2, 1>>))
  /\ c_ = SpeedGrid(FluidAxes(<<2, 1>>))
  /\ fig = FluidContours(fluids, FluidAxes(<<2, 1>>))
  /\ run = 1
  /\ source = [NoFiles EXCEPT !.fluids = Table(FluidColumns, <<Air, Water>>)]
  /\ first = <<>>

NextNotes ==
  \/ ReadGuitar(GuitarNoteFiles)
  \/ SIGuitar
  \/ FrequencyGuitar
  \/ MassGuitar
  \/ NameGuitar
  \/ ChartsGuitar
  \/ ReadVarious(VariousNoteFiles)
  \/ SIVarious
  \/ FrequencyVarious
  \/ MassVarious
  \/ NameVarious

SpecNotes == InitNotes /\ [][NextNotes]_vars

(***************************************************************************)
(* The contour cells over every grid size, with one string in each file    *)
(* of strings, from the state the script is in when the chart of bulk      *)
(* modulus has been drawn for a file holding air and water.                *)
(***************************************************************************)
OneGuitarFile ==
  {Table(GuitarColumns,
         <<GuitarRow(Str("Classical"), "Normal", Note(<<"E", "2">>), Dec(60, 10), Dec(645, 10))>>)}

OneVariousFile ==
  {Table(VariousColumns,
         <<VariousRow("Guitar", Str("Tenor"), "Plucked", Note(<<"A", "4">>), Dec(80, 10), Dec(58, 1))>>)}

InitContours ==
  /\ fluids = WithBulkModulus(SetRow(Table(FluidColumns, <<Air, Water>>),
                                     "Dodecafluoropentane", Dodecafluoropentane))
  /\ strings_g = Undefined
  /\ strings = Undefined
  /\ pc = "contours_fluids"
  /\ err = "none"
  /\ last = "chart_modulus"
  /\ manual = 0
  /\ z = <<>>
  /\ c_ = <<>>
  /\ fig = Figure("fluids", "Density", "Bulk modulus",
                  <<Point(fluids, "Water", "Density", "Bulk modulus"),
                    Point(fluids, "Air", "Density", "Bulk modulus")>>, <<>>)
  /\ run = 1
  /\ source = [NoFiles EXCEPT !.fluids = Table(FluidColumns, <<Air, Water>>)]
  /\ first = <<>>

NextContours ==
  \/ ContoursFluids(GridSizes)
  \/ ReadGuitar(OneGuitarFile)
  \/ SIGuitar
  \/ FrequencyGuitar
  \/ MassGuitar
  \/ NameGuitar
  \/ ChartsGuitar
  \/ ReadVarious(OneVariousFile)
  \/ SIVarious
  \/ FrequencyVarious
  \/ MassVarious
  \/ NameVarious
  \/ ContoursStrings(GridSizes)
  \/ ChartsVarious

SpecContours == InitContours /\ [][NextContours]_vars

(***************************************************************************)
(* The strings sections with one string in each file, and the changes of   *)
(* a primary field made by hand in the three tables, from the state the    *)
(* script is in when the fluids section has run.                           *)
(***************************************************************************)
NextChanges ==
  \/ ManualChange
  \/ ManualBulkModulus
  \/ ReadGuitar(OneGuitarFile)
  \/ SIGuitar
  \/ FrequencyGuitar
  \/ MassGuitar
  \/ NameGuitar
  \/ ChartsGuitar
  \/ ManualChangeGuitar
  \/ ReadVarious(OneVariousFile)
  \/ SIVarious
  \/ FrequencyVarious
  \/ MassVarious
  \/ NameVarious
  \/ ManualChangeVarious

SpecChanges == InitNotes /\ [][NextChanges]_vars

(***************************************************************************)
(* The strings sections on files of several strings whose notes are two    *)
(* names of note_names, a sharp written with the usual sign and a missing  *)
(* note, in any order, from the state the script is in when the fluids     *)
(* section has run.                                                        *)
(***************************************************************************)
LoopNotes == {Note(<<"E", "2">>), Note(<<"A", "3">>), Note(<<"C", "#", "4">>), NaN}

GuitarLoopFiles ==
  {Table(GuitarColumns, r) :
     r \in SeqsUpTo({GuitarRow(Str("Classical"), "Normal", n, Dec(60, 10), Dec(645, 10)) :
                       n \in LoopNotes}, MaxRows)}

VariousLoopFiles ==
  {Table(VariousColumns, r) :
     r \in SeqsUpTo({VariousRow("Guitar", Str("Tenor"), "Plucked", n, Dec(80, 10), Dec(58, 1)) :
                       n \in LoopNotes}, MaxRows)}

NextLoop ==
  \/ ReadGuitar(GuitarLoopFiles)
  \/ SIGuitar
  \/ FrequencyGuitar
  \/ MassGuitar
  \/ NameGuitar
  \/ ChartsGuitar
  \/ ReadVarious(VariousLoopFiles)
  \/ SIVarious
  \/ FrequencyVarious
  \/ MassVarious
  \/ NameVarious

SpecLoop == InitNotes /\ [][NextLoop]_vars

(***************************************************************************)
(* Properties                                                              *)
(***************************************************************************)
Rows(df) == {df.rows[i] : i \in DOMAIN df.rows}

\* the bulk-modulus cell is the statement executed last
JustDerived == last \in {"bulk_modulus", "manual_bulk_modulus"}

\* C1: after the bulk-modulus derivation step every fluid record, loaded or
\* appended by hand before the step, has 'Bulk modulus' equal to its Density
\* times the square of its Sound speed.
C1_BulkModulusIsDensityTimesSpeedSquared ==
  JustDerived =>
    /\ HasColumn(fluids, "Bulk modulus")
    /\ \A r \in Rows(fluids) :
         r["Bulk modulus"] = Mul(r["Density"], Mul(r["Sound speed"], r["Sound speed"]))

\* the script's cell has derived a table that holds a loaded record and one
\* appended by hand
C1_Witness ==
  /\ last = "bulk_modulus"
  /\ HasKey(fluids, "Air")
  /\ HasKey(fluids, "Mercury")

\* C2: in every reachable state, every fluid record that has a bulk modulus
\* has it equal to its current Density times the square of its current Sound
\* speed.
C2_BulkModulusStaysConsistent ==
  HasColumn(fluids, "Bulk modulus") =>
    \A r \in Rows(fluids) :
      r["Bulk modulus"] = Mul(r["Density"], Mul(r["Sound speed"], r["Sound speed"]))

\* the string records of both tables that hold a frequency
Tuned(df) ==
  IF HasColumn(df, "Frequency [Hz]")
  THEN {r \in Rows(df) : ~IsNull(r["Frequency [Hz]"])}
  ELSE {}

\* the letter class and the octave of a note name
Letter(r) == SubSeq(r["Note"].v, 1, Len(r["Note"].v) - 1)
Octave(r) ==
  LET c == r["Note"].v[Len(r["Note"].v)]
  IN  CHOOSE n \in 0..9 : Digits[n + 1] = c

\* the signed distance in semitones of a letter class from A
SemitonesFromA(letter) ==
  CASE letter = <<"C">> -> -9
    [] letter = <<"C", "s">> -> -8
    [] letter = <<"D">> -> -7
    [] letter = <<"D", "s">> -> -6
    [] letter = <<"E">> -> -5
    [] letter = <<"F">> -> -4
    [] letter = <<"F", "s">> -> -3
    [] letter = <<"G">> -> -2
    [] letter = <<"G", "s">> -> -1
    [] letter = <<"A">> -> 0
    [] letter = <<"A", "s">> -> 1
    [] letter = <<"B">> -> 2

\* C3: the frequency of every string record is 440 x 2^(k/12), where
\* k = (semitones of the letter class from A) + 12 x (octave - 4), for all
\* twelve letter classes and every octave digit.
C3_FrequencyIsEqualTemperament ==
  \A df \in {strings_g, strings} : \A r \in Tuned(df) :
    r["Frequency [Hz]"] =
      Mul(A440, TwoToThe(SemitonesFromA(Letter(r)) + 12 * (Octave(r) - 4)))

\* both loops have run, on the lowest and on the highest note of the space
C3_Witness ==
  /\ \E r \in Tuned(strings_g) : r["Note"] = Note(<<"C", "0">>)
  /\ \E r \in Tuned(strings) : r["Note"] = Note(<<"B", "9">>)

LetterClassesSharpSign ==
  { <<"C">>, <<"C", "#">>, <<"D">>, <<"D", "#">>, <<"E">>, <<"F">>,
    <<"F", "#">>, <<"G">>, <<"G", "#">>, <<"A">>, <<"A", "#">>, <<"B">> }

LetterClassesS ==
  { <<"C">>, <<"C", "s">>, <<"D">>, <<"D", "s">>, <<"E">>, <<"F">>,
    <<"F", "s">>, <<"G">>, <<"G", "s">>, <<"A">>, <<"A", "s">>, <<"B">> }

\* a note name made of a letter class of the set and one octave digit
WellFormed(cell, classes) ==
  /\ ~IsNull(cell)
  /\ Len(cell.v) >= 1
  /\ SubSeq(cell.v, 1, Len(cell.v) - 1) \in classes
  /\ cell.v[Len(cell.v)] \in {"0", "1", "2", "3", "4", "5", "6", "7", "8", "9"}

\* the frequency loop over df, just run, accepts exactly the notes of the
\* classes: it ends without an error and with a frequency in every record
\* when every note is well formed, and otherwise raises at the first record
\* whose note is not, leaving that record without a frequency
AcceptsExactly(df, classes) ==
  LET bad == {i \in DOMAIN df.rows : ~WellFormed(df.rows[i]["Note"], classes)}
  IN  IF bad = {}
      THEN err = "none" /\ \A r \in Rows(df) : r \in Tuned(df)
      ELSE /\ err \in {"ValueError", "TypeError"}
           /\ err = "TypeError" <=> \E i \in bad : (\A j \in bad : i <= j) /\ IsNull(df.rows[i]["Note"])
           /\ \A i \in bad : df.rows[i] \notin Tuned(df)

\* C4 as stated: the accepted note names are those of a letter class in
\* {C, C#, D, D#, E, F, F#, G, G#, A, A#, B} followed by an octave digit.
C4_AcceptsSharpSignNames ==
  /\ last = "frequency_guitar" => AcceptsExactly(strings_g, LetterClassesSharpSign)
  /\ last = "frequency_various" => AcceptsExactly(strings, LetterClassesSharpSign)

\* C4, amended: the accepted note names are those of a letter class in
\* {C, Cs, D, Ds, E, F, Fs, G, Gs, A, As, B} followed by one octave digit;
\* every other note name raises (ValueError, or TypeError for a missing
\* note) and gets no frequency.
C4_AcceptsExactlyNoteNames ==
  /\ last = "frequency_guitar" => AcceptsExactly(strings_g, LetterClassesS)
  /\ last = "frequency_various" => AcceptsExactly(strings, LetterClassesS)

\* the guitar loop has refused a sharp written with the usual sign
C4_Witness ==
  /\ last = "frequency_guitar"
  /\ err = "ValueError"
  /\ \E r \in Rows(strings_g) : r["Note"] = Note(<<"C", "#", "4">>)

\* (octave, letter-class index in C..B order) of a record
PitchKey(r) == <<Octave(r), SemitonesFromA(Letter(r)) + 9>>

LexLess(a, b) == a[1] < b[1] \/ (a[1] = b[1] /\ a[2] < b[2])

\* a < b for two frequencies whose ratio is a power of the semitone ratio
Lower(a, b) ==
  LET ratio == Div(a, b)
  IN  ratio.k = "num" /\ ratio.s = 1 /\ DOMAIN ratio.e = {2} /\ ratio.e[2] < 0

\* C5: frequency is strictly increasing in the lexicographic order of
\* (octave, letter-class index in C..B order).
C5_FrequencyIncreasesWithPitch ==
  \A g \in Tuned(strings_g), v \in Tuned(strings) :
    /\ LexLess(PitchKey(g), PitchKey(v)) => Lower(g["Frequency [Hz]"], v["Frequency [Hz]"])
    /\ LexLess(PitchKey(v), PitchKey(g)) => Lower(v["Frequency [Hz]"], g["Frequency [Hz]"])

\* both loops have run, on B of one octave and on C of the next
C5_Witness ==
  /\ \E g \in Tuned(strings_g) : g["Note"] = Note(<<"B", "3">>)
  /\ \E v \in Tuned(strings) : v["Note"] = Note(<<"C", "4">>)

RECURSIVE TwoPower(_)
TwoPower(n) == IF n = 0 THEN 1 ELSE 2 * TwoPower(n - 1)

\* 440 x 2^(o - 4) as a fraction of integers
AOfOctave(o) ==
  IF o >= 4 THEN Dec(440 * TwoPower(o - 4), 1) ELSE Dec(440, TwoPower(4 - o))

\* C6: A4 derives to exactly 440 and A3 to exactly 220; the exponent for A
\* at octave o is the integer o - 4, so one octave down halves the frequency.
C6_A4Is440 ==
  \A df \in {strings_g, strings} : \A r \in Tuned(df) :
    /\ r["Note"] = Note(<<"A", "4">>) => r["Frequency [Hz]"] = Dec(440, 1)
    /\ r["Note"] = Note(<<"A", "3">>) => r["Frequency [Hz]"] = Dec(220, 1)
    /\ Letter(r) = <<"A">> => r["Frequency [Hz]"] = AOfOctave(Octave(r))

C6_Witness ==
  /\ \E g \in Tuned(strings_g) : g["Note"] = Note(<<"A", "4">>)
  /\ \E v \in Tuned(strings) : v["Note"] = Note(<<"A", "3">>)

StandardGravity == Dec(980665, 100000)

\* in both tables, every tension in newtons is the tension in kilograms-force
\* times g
NewtonsAre(g) ==
  \A df \in {strings_g, strings} :
    HasColumn(df, "Tension [N]") =>
      \A r \in Rows(df) : r["Tension [N]"] = Mul(r["Tension (kg)"], g)

\* C7 as stated: at both sites the tension in newtons is the tension in
\* kilograms-force multiplied by 9.80665.
C7_NewtonsByStandardGravity == NewtonsAre(StandardGravity)

\* C7, amended: at both sites the tension in newtons is the tension in
\* kilograms-force multiplied by 9.81.
C7_NewtonsBy981 == NewtonsAre(Dec(981, 100))

\* both conversions have run on a record that gives a tension
C7_Witness ==
  \A df \in {strings_g, strings} :
    /\ HasColumn(df, "Tension [N]")
    /\ \E r \in Rows(df) : IsNumber(r["Tension [N]"])

ClaimedAirBulkModulus == Dec(1412048, 10)

AirBulkModulus == Dec(1411788, 10)

\* every record of density 1.2 and sound speed 343 has just been given the
\* bulk modulus b
AirGets(b) ==
  JustDerived =>
    \A r \in Rows(fluids) :
      r["Density"] = Dec(12, 10) /\ r["Sound speed"] = Dec(343, 1) =>
        r["Bulk modulus"] = b

\* C8 as stated: density 1.2 and sound speed 343 give the bulk modulus
\* 141,204.8.
C8_AirBulkModulus141204 == AirGets(ClaimedAirBulkModulus)

\* C8, amended: density 1.2 and sound speed 343 give the bulk modulus
\* 141,178.8, the value of 1.2 x 343^2.
C8_AirBulkModulus141178 == AirGets(AirBulkModulus)

C8_Witness ==
  /\ JustDerived
  /\ \E r \in Rows(fluids) : r["Density"] = Dec(12, 10) /\ r["Sound speed"] = Dec(343, 1)

StringTables == {strings_g, strings}

\* 2 x frequency x scale length
WaveSpeed(r) == Mul(Dec(2, 1), Mul(r["Frequency [Hz]"], r["Scale [m]"]))

Populated(df, c) == HasColumn(df, c) /\ \A r \in Rows(df) : ~IsNull(r[c])

\* C9 as stated: when the load stage has finished, every string record has
\* populated fields for frequency, wave speed (2 x frequency x scale length)
\* and mass per unit length, and every fluid record a bulk modulus.
C9_AllDerivedFieldsStored ==
  pc = "done" =>
    /\ \A df \in StringTables :
         /\ Populated(df, "Frequency [Hz]")
         /\ Populated(df, "Mass/length [kg/m]")
         /\ \A r \in Rows(df) : \E c \in Range(df.columns) : r[c] = WaveSpeed(r)
    /\ Populated(fluids, "Bulk modulus")

DerivedStringColumns ==
  <<"Tension [N]", "Scale [m]", "Frequency [Hz]", "Mass/length [kg/m]", "Name">>

\* C9, amended: when the script has run to its end, every string record has
\* a frequency and a 'Mass/length [kg/m]' field holding tension / wave speed^2
\* with wave speed = 2 x frequency x scale length (a number whenever the
\* source gives the tension and a scale that is not zero), and every fluid
\* record a bulk modulus (a number whenever the source gives its density and
\* sound speed); the wave speed itself is not stored: the fields
\* added to a string record are the tension in newtons, the scale in metres,
\* the frequency, the mass per unit length and the name.
C9_DerivedFieldsStoredButWaveSpeed ==
  pc = "done" =>
    /\ strings_g.columns = GuitarColumns \o DerivedStringColumns
    /\ strings.columns = VariousColumns \o DerivedStringColumns
    /\ \A df \in StringTables : \A r \in Rows(df) :
         /\ IsNumber(r["Frequency [Hz]"])
         /\ r["Mass/length [kg/m]"] = Div(r["Tension [N]"], Square(WaveSpeed(r)))
         /\ IsNumber(r["Tension (kg)"]) /\ IsNumber(r["Scale (cm)"]) /\ r["Scale (cm)"] # Zero
              => IsNumber(r["Mass/length [kg/m]"])
    /\ HasColumn(fluids, "Bulk modulus")
    /\ \A r \in Rows(fluids) :
         IsNumber(r["Density"]) /\ IsNumber(r["Sound speed"]) => IsNumber(r["Bulk modulus"])

\* the script has run to its end on three tables that hold records
C9_Witness ==
  /\ pc = "done"
  /\ Len(fluids.rows) > 1
  /\ Len(strings_g.rows) > 0
  /\ Len(strings.rows) > 0

\* every record of df has a label: the instrument alone when Type is missing,
\* else the type, a space and the field named second
Labelled(df, second) ==
  HasColumn(df, "Name") =>
    \A r \in Rows(df) :
      /\ ~IsNull(r["Name"])
      /\ r["Name"] = IF IsNull(r["Type"]) THEN r["Instrument"]
                     ELSE Str(r["Type"].v \o " " \o r[second].v)

\* C10: in both string tables name construction never raises and never
\* leaves the label null: the instrument alone when Type is missing, else the
\* type with the string type (guitars) or the instrument (various).
C10_NameNeverNull ==
  /\ Labelled(strings_g, "String type")
  /\ Labelled(strings, "Instrument")
  /\ pc \in {"name_guitar", "name_various"} => err = "none"

\* the number whose log10 a contour value is
Antilog(level) == [k |-> "num", s |-> 1, e |-> level.e]

\* a contour cell is the statement executed last, and it ran to its end
ContoursDrawn == last \in {"contours_fluids", "contours_strings"} /\ err = "none"

\* grid has one row per element of y and one column per element of x, and
\* the cell at row j, column i is the positive root of x[i] * y[j]
\* (impedance) or of y[j] / x[i] (wave speed)
GridHolds(grid, x, y, quantity) ==
  /\ Len(grid) = Len(y)
  /\ \A j \in DOMAIN grid :
       /\ Len(grid[j]) = Len(x)
       /\ \A i \in DOMAIN grid[j] :
            /\ IsNumber(grid[j][i]) /\ grid[j][i].s = 1
            /\ Mul(grid[j][i], grid[j][i]) =
                 IF quantity = "impedance" THEN Mul(x[i], y[j]) ELSE Div(y[j], x[i])

\* C11: the grids of a contour cell have exactly m x n cells for an x range
\* of m and a y range of n points; the cell at row j, column i holds the
\* impedance sqrt(x[i] * y[j]) and the wave speed sqrt(y[j] / x[i]); rows
\* follow y and columns x, as the x and y arrays handed to the contour
\* calls do.
C11_GridsFollowTheAxes ==
  ContoursDrawn =>
    \A k \in DOMAIN fig.contours :
      LET contour == fig.contours[k]
          values == [j \in DOMAIN contour.z |->
                       [i \in DOMAIN contour.z[j] |-> Antilog(contour.z[j][i])]]
      IN  /\ \A j \in DOMAIN contour.z : \A i \in DOMAIN contour.z[j] :
               contour.z[j][i].k = "log10"
          /\ GridHolds(values, contour.x, contour.y,
                       IF k % 2 = 1 THEN "impedance" ELSE "speed")
          /\ GridHolds(z, contour.x, contour.y, "impedance")
          /\ GridHolds(c_, contour.x, contour.y, "speed")

\* the cell of the strings has drawn its two contours on a grid of three
\* rows and two columns
C11_Witness ==
  /\ ContoursDrawn
  /\ fig.frame = "strings"
  /\ Len(fig.contours) = 2
  /\ Len(z) = 3 /\ Len(z[1]) = 2

\* a number that is zero or negative
NonPositive(x) == IsNumber(x) /\ x.s <= 0

\* every cell of the column of df, where df has the column, is a number
Finite(df, column) ==
  HasColumn(df, column) => \A r \in Rows(df) : IsNumber(r[column])

FiniteGrid(grid) ==
  \A j \in DOMAIN grid : \A i \in DOMAIN grid[j] : IsNumber(grid[j][i])

\* C12: a zero or negative value in an axis range of a contour grid, or a
\* zero or negative density or mass per unit length in a table a derivation
\* has run on, ends the operation in a DomainError; no grid cell and no
\* derived field ever holds NaN or an infinity.
C12_DomainErrorNeverNaN ==
  /\ (\E k \in DOMAIN fig.contours :
        \E v \in Range(fig.contours[k].x) \cup Range(fig.contours[k].y) : NonPositive(v))
       => err = "DomainError"
  /\ (HasColumn(fluids, "Bulk modulus") /\ \E r \in Rows(fluids) : NonPositive(r["Density"]))
       => err = "DomainError"
  /\ \A df \in StringTables :
       (HasColumn(df, "Mass/length [kg/m]")
          /\ \E r \in Rows(df) : NonPositive(r["Mass/length [kg/m]"]))
         => err = "DomainError"
  /\ FiniteGrid(z) /\ FiniteGrid(c_)
  /\ Finite(fluids, "Bulk modulus")
  /\ \A df \in StringTables :
       Finite(df, "Frequency [Hz]") /\ Finite(df, "Mass/length [kg/m]")

\* a tension below zero
Negative(x) == IsNumber(x) /\ x.s < 0

\* C13: no loaded table ever holds a record that lacks a required column,
\* whose density or sound speed is no number, or whose tension is negative:
\* the load rejects it with a ValidationError, and no derivation runs on it.
C13_InvalidRecordsRejected ==
  /\ fluids.defined =>
       /\ Range(FluidColumns) \subseteq Range(fluids.columns)
       /\ \A r \in Rows(fluids) : r["Density"].k # "str" /\ r["Sound speed"].k # "str"
  /\ \A df \in StringTables :
       df.defined =>
         /\ {"Note", "Tension (kg)", "Scale (cm)"} \subseteq Range(df.columns)
         /\ \A r \in Rows(df) : ~Negative(r["Tension (kg)"])

\* the table of fluids is loaded and no row of it is labelled key
Absent(key) == fluids.defined /\ ~HasKey(fluids, key)

\* the cells that highlight air and water
HighlightCells == {"chart_speed", "chart_modulus", "contours_fluids"}

\* C14 as stated: when Air or Water is absent from the fluid table, the load
\* and the bulk-modulus derivation complete, and the script stops with a
\* lookup error only in a cell that highlights the two records.
C14_LookupErrorOnlyAtHighlight ==
  /\ last = "read_fluids" => err = "none"
  /\ (Absent("Air") \/ Absent("Water")) /\ err # "none" =>
       /\ err = "KeyError"
       /\ pc \in HighlightCells
       /\ HasColumn(fluids, "Bulk modulus")

\* C14, amended: when Air or Water is absent from the fluid table the load
\* still completes, and the script stops with a KeyError at the first
\* statement that reads the key: the display fluids.loc['Air'] for Air, the
\* highlight of the first chart for Water.  Both come before the
\* bulk-modulus derivation, which is then not run.
C14_LookupErrorAtFirstRead ==
  /\ last = "read_fluids" => err = "none" /\ fluids.defined
  /\ Absent("Air") =>
       /\ pc = "show_air"
       /\ err = (IF last = "show_air" THEN "KeyError" ELSE "none")
       /\ ~HasColumn(fluids, "Bulk modulus")
  /\ Absent("Water") /\ ~Absent("Air") =>
       /\ pc \in {"show_air", "add_fluid", "chart_speed"}
       /\ err = (IF last = "chart_speed" THEN "KeyError" ELSE "none")
       /\ ~HasColumn(fluids, "Bulk modulus")

\* the script has stopped at the first chart on a table that holds air and
\* no water
C14_Witness ==
  /\ Absent("Water") /\ HasKey(fluids, "Air")
  /\ pc = "chart_speed" /\ err = "KeyError"

\* C15: no two records of the fluid table share a key, after the load and
\* after any sequence of appends by hand (an append under a name the table
\* holds replaces that record).
C15_KeysUnique ==
  fluids.defined =>
    \A i, j \in DOMAIN fluids.rows :
      fluids.rows[i]["index"] = fluids.rows[j]["index"] => i = j

\* the run has ended or stopped
Over == pc = "done" \/ err # "none"

\* C16: the script run a second time on the same source files, in the
\* kernel the first run left, ends as the first run did, with the same three
\* tables, grids and figure: the result depends on the source rows alone.
C16_SecondRunGivesTheSame ==
  run = 2 /\ Over =>
    /\ fluids = first.fluids /\ strings_g = first.strings_g /\ strings = first.strings
    /\ pc = first.pc /\ err = first.err
    /\ z = first.z /\ c_ = first.c /\ fig = first.fig

\* a second run has derived all three tables to the end
C16_Witness ==
  /\ run = 2 /\ pc = "done"
  /\ Len(fluids.rows) > 2 /\ Len(strings_g.rows) > 1 /\ Len(strings.rows) > 1
  /\ HasColumn(strings_g, "Name") /\ HasColumn(strings, "Name")

\* the string records that hold a mass per unit length
Weighed(df) ==
  IF HasColumn(df, "Mass/length [kg/m]") THEN Rows(df) ELSE {}

Positive(x) == IsNumber(x) /\ x.s > 0

\* C17: for every string record of tension T > 0 and wave speed
\* c = 2 x frequency x scale length > 0, whose mass per unit length the
\* script has derived, the wave speed sqrt(T / mass per unit length) of the
\* contour grids is c again.
C17_WaveSpeedRoundTrip ==
  \A df \in StringTables : \A r \in Weighed(df) :
    Positive(r["Tension [N]"]) /\ Positive(WaveSpeed(r)) =>
      Speed(r["Tension [N]"], r["Mass/length [kg/m]"]) = WaveSpeed(r)

\* both tables hold a mass per unit length, of the lowest and of the highest
\* note
C17_Witness ==
  /\ \E r \in Weighed(strings_g) :
       r["Note"] = Note(<<"C", "0">>) /\ Positive(r["Mass/length [kg/m]"])
  /\ \E r \in Weighed(strings) :
       r["Note"] = Note(<<"B", "9">>) /\ Positive(r["Mass/length [kg/m]"])

\* C18: in a run of the script, the stored mass per unit length of every
\* string record is tension[N] / (4 x scale[m]^2 x frequency^2), which is
\* tension / c^2 for c = 2 x frequency x scale length, the scale in metres
\* being the source scale in centimetres divided by 100.
C18_MassIsTensionOverSpeedSquared ==
  \A df \in StringTables : \A r \in Weighed(df) :
    LET T == r["Tension [N]"]
        f == r["Frequency [Hz]"]
        L == Div(r["Scale (cm)"], Dec(100, 1))
        wave_speed == Mul(Dec(2, 1), Mul(f, L))
    IN  /\ r["Scale [m]"] = L
        /\ r["Mass/length [kg/m]"] = Div(T, Mul(Mul(Dec(4, 1), Mul(L, L)), Mul(f, f)))
        /\ r["Mass/length [kg/m]"] = Div(T, Mul(wave_speed, wave_speed))

\* both tables hold a record with a mass per unit length that is a number
C18_Witness ==
  \A df \in StringTables :
    \E r \in Weighed(df) : IsNumber(r["Mass/length [kg/m]"]) /\ IsNumber(r["Scale [m]"])

\* the sum of two logarithms, as the logarithm of the product
LogSum(a, b) == [k |-> "log10", s |-> 1, e |-> MapAdd(a.e, b.e)]

\* the levels of a dashed contour are the log10 of the values low and high,
\* and the step from the first level is the second
LevelsAre(contour, low, high) ==
  /\ contour.start.k = "log10" /\ Antilog(contour.start) = low
  /\ contour.end.k = "log10" /\ Antilog(contour.end) = high
  /\ contour.size.k = "log10" /\ LogSum(contour.start, contour.size) = contour.end

\* the value is positive and its square is the square given
RootOf(value, square) == Positive(value) /\ Mul(value, value) = square

\* C19: in a run of the script, the dashed contours of the fluid chart have
\* the levels start = log10 of Air's value and end = log10 of Water's value,
\* with start + size = end, for impedance (density x sound speed) and for
\* wave speed; and each
\* reference value is the grid formula at the highlighted point (Density,
\* Bulk modulus) of its record: sqrt(bulk modulus x density) for impedance,
\* sqrt(bulk modulus / density) for wave speed.
C19_DashedContoursThroughAirAndWater ==
  last = "contours_fluids" /\ err = "none" =>
    LET air == RowsLabelled(fluids.rows, "Air")[1]
        water == RowsLabelled(fluids.rows, "Water")[1]
        point_water == fig.points[1]
        point_air == fig.points[2]
        dashed_z == fig.contours[3]
        dashed_c == fig.contours[4]
    IN  /\ Len(fig.contours) = 4
        /\ LevelsAre(dashed_z, Mul(air["Density"], air["Sound speed"]),
                     Mul(water["Density"], water["Sound speed"]))
        /\ LevelsAre(dashed_c, air["Sound speed"], water["Sound speed"])
        /\ point_air.name = "Air" /\ point_water.name = "Water"
        /\ RootOf(Antilog(dashed_z.start), Mul(point_air.y[1], point_air.x[1]))
        /\ RootOf(Antilog(dashed_z.end), Mul(point_water.y[1], point_water.x[1]))
        /\ RootOf(Antilog(dashed_c.start), Div(point_air.y[1], point_air.x[1]))
        /\ RootOf(Antilog(dashed_c.end), Div(point_water.y[1], point_water.x[1]))

\* the contour cell has drawn the dashed contours for a table that holds
\* air, water and more
C19_Witness ==
  /\ last = "contours_fluids" /\ err = "none"
  /\ Len(fig.contours) = 4
  /\ Len(fluids.rows) > 3

\* the step is a change of a primary field made by hand
ChangedByHand ==
  /\ manual' # manual
  /\ last' \in {"manual_change", "manual_change_guitar", "manual_change_various"}

\* the derived fields that the table holds before the step are the same
\* after it
DerivedKept(before, after, columns) ==
  /\ Len(after.rows) = Len(before.rows)
  /\ \A column \in columns :
       HasColumn(before, column) =>
         /\ HasColumn(after, column)
         /\ \A i \in DOMAIN before.rows : after.rows[i][column] = before.rows[i][column]

\* C20: a change by hand of a primary field (density, sound speed, tension,
\* scale, note) leaves every derived field (bulk modulus, frequency, mass
\* per unit length) at the value it had: nothing is derived again until the
\* derivation step is run again, after which the bulk modulus is that of
\* the changed fields.
C20_DerivedFieldsGoStale ==
  [][/\ ChangedByHand =>
          /\ DerivedKept(fluids, fluids', {"Bulk modulus"})
          /\ DerivedKept(strings_g, strings_g', {"Frequency [Hz]", "Mass/length [kg/m]"})
          /\ DerivedKept(strings, strings', {"Frequency [Hz]", "Mass/length [kg/m]"})
     /\ last' = "manual_bulk_modulus" =>
          \A i \in DOMAIN fluids'.rows :
            fluids'.rows[i]["Bulk modulus"] =
              Mul(fluids'.rows[i]["Density"],
                  Mul(fluids'.rows[i]["Sound speed"], fluids'.rows[i]["Sound speed"]))]_vars

\* the note of a guitar string was changed by hand after the derivations,
\* and its frequency is that of the note it had
C20_Witness ==
  /\ last = "manual_change_guitar"
  /\ \E r \in Weighed(strings_g) :
       /\ r["Note"] = Note(<<"G", "3">>)
       /\ r["Frequency [Hz]"] # Mul(A440, TwoToThe(-14))

\* the step is the run of one of the cells, which may end or raise
Derives(cells) == pc \in cells /\ err = "none" /\ last' = pc

\* the bulk-modulus cell run by hand
DerivesByHand == manual' # manual /\ last' = "manual_bulk_modulus"

GuitarDerivations == {"si_guitar", "frequency_guitar", "mass_guitar", "name_guitar"}

VariousDerivations == {"si_various", "frequency_various", "mass_various", "name_various"}

\* the table keeps its records, their order and its columns, gets no column
\* but derived ones, and every field outside the derived columns keeps its
\* value
OnlyDerived(before, after, derived) ==
  /\ after.defined = before.defined
  /\ Len(after.rows) = Len(before.rows)
  /\ Len(after.columns) >= Len(before.columns)
  /\ SubSeq(after.columns, 1, Len(before.columns)) = before.columns
  /\ Range(after.columns) \ Range(before.columns) \subseteq derived
  /\ \A i \in DOMAIN before.rows :
       \A f \in DOMAIN before.rows[i] \ derived :
         after.rows[i][f] = before.rows[i][f]

\* C21: every derivation step (bulk modulus, unit conversion, frequency,
\* mass per unit length, name), whether it ends or raises, only adds or
\* overwrites derived columns of its table: every primary field of every
\* record, the number of records and their order are what they were, and
\* the two other tables are unchanged.
C21_DerivationsOnlyAddDerivedColumns ==
  [][/\ Derives({"bulk_modulus"}) \/ DerivesByHand =>
          /\ OnlyDerived(fluids, fluids', {"Bulk modulus"})
          /\ UNCHANGED <<strings_g, strings>>
     /\ Derives(GuitarDerivations) =>
          /\ OnlyDerived(strings_g, strings_g', Range(DerivedStringColumns))
          /\ UNCHANGED <<fluids, strings>>
     /\ Derives(VariousDerivations) =>
          /\ OnlyDerived(strings, strings', Range(DerivedStringColumns))
          /\ UNCHANGED <<fluids, strings_g>>]_vars

\* the last derivation of the script has run on a table of two different
\* strings, the two other tables holding records, and the bulk modulus was
\* derived a second time by hand
C21_Witness ==
  /\ pc = "contours_strings" /\ last = "name_various" /\ err = "none"
  /\ manual > 0
  /\ strings.columns = VariousColumns \o DerivedStringColumns
  /\ Len(strings.rows) > 1 /\ strings.rows[1] # strings.rows[2]
  /\ Len(strings_g.rows) > 1
  /\ Len(fluids.rows) > 2

\* the first row whose note the loop body cannot parse
FirstUnparseable(df) ==
  CHOOSE k \in DOMAIN df.rows :
    /\ NoteError(df.rows[k]["Note"]) # "none"
    /\ \A i \in 1..(k - 1) : NoteError(df.rows[i]["Note"]) = "none"

\* the record holds no frequency
NoFrequency(df, i) ==
  HasColumn(df, "Frequency [Hz]") => IsNull(df.rows[i]["Frequency [Hz]"])

\* the table read from the file with columns file, stopped in the loop
StoppedAtRow(df, file) ==
  /\ \E k \in DOMAIN df.rows : NoteError(df.rows[k]["Note"]) # "none"
  /\ LET k == FirstUnparseable(df)
     IN  /\ err = NoteError(df.rows[k]["Note"])
         /\ \A i \in 1..(k - 1) :
              /\ HasColumn(df, "Frequency [Hz]")
              /\ IsNumber(df.rows[i]["Frequency [Hz]"])
              /\ df.rows[i]["Frequency [Hz]"] = NoteFrequency(df.rows[i]["Note"])
         /\ \A i \in k..Len(df.rows) : NoFrequency(df, i)
         /\ df.columns = file \o <<"Tension [N]", "Scale [m]">>
                               \o (IF k > 1 THEN <<"Frequency [Hz]">> ELSE <<>>)
         /\ \A i \in DOMAIN df.rows :
              DOMAIN df.rows[i] = Range(df.columns)

\* C22: in a run of the script, when the frequency loop meets a note it
\* cannot parse at row k it raises there: the rows before k hold their
\* frequency, row k and the rows after it hold none, and the table has the
\* two columns of the unit conversion but no mass per unit length and no
\* name, the cells that derive them not being run.
C22_LoopStopsAtUnparseableNote ==
  /\ pc = "frequency_guitar" /\ err # "none" => StoppedAtRow(strings_g, GuitarColumns)
  /\ pc = "frequency_various" /\ err # "none" => StoppedAtRow(strings, VariousColumns)
  /\ err # "none" => pc # "done"

\* the loop over the strings of various instruments has stopped at its
\* second row, the first row holding its frequency, and the loop over the
\* guitar strings had run to its end
C22_Witness ==
  /\ pc = "frequency_various" /\ err = "ValueError"
  /\ Len(strings.rows) > 1
  /\ FirstUnparseable(strings) = 2
  /\ IsNumber(strings.rows[1]["Frequency [Hz]"])
  /\ HasColumn(strings_g, "Name")

====
